---------------------------- MODULE Spec2Model ----------------------------
(***************************************************************************)
(* A model of S3Store (src/lib/stores/S3Store.ts): one upload id, the S3   *)
(* objects it owns (the sidecar {id}.info, the multipart upload and its    *)
(* parts), the store's cache, and the operations create, write, getOffset  *)
(* and declareUploadLength.  Sizes are counted in MiB.  An action is one   *)
(* continuation of the asynchronous code: it runs when the S3 response or  *)
(* the stream event it waits for arrives, and it runs to the next await.   *)
(***************************************************************************)
EXTENDS Integers, Sequences, FiniteSets, TLC

(* ------------------------------ bounds -------------------------------- *)

\* write calls made on the id
MaxWrites == 2
\* createMultipartUpload calls answered by S3
MaxUploadIds == 1
\* parts per listParts page (S3 answers at most 1000; a small page makes
\* the pagination of _retrieveParts happen)
PageSize == 1

(* ------------------------- program constants -------------------------- *)

\* 5 * 1024 * 1024 bytes, in MiB
MinPartSize == 5
\* options.partSize || 8 * 1024 * 1024, in MiB
DefaultPartSize == 8

(* ---------------------- the inputs the model draws -------------------- *)

\* options.partSize: the default, and one below the 5 MiB floor
PartSizes == {4, DefaultPartSize}
\* upload_length a client declares (MiB)
Lengths == {20, 100}
\* upload_length a client declares after a create that deferred it (MiB)
DeclaredLengths == {20}
\* bytes a PATCH stream delivers before it ends or errors (MiB)
StreamSizes == {0, 3, 10, 12, 20}
\* how a readable ends: normally, or with an error of that code
StreamEnds == {"end", "RequestTimeout"}
\* what S3 answers to a call, besides NoSuchUpload which its state decides
Outcomes == {"ok", "RequestTimeout", "InternalError"}

\* JavaScript's undefined where a number may stand
Undefined == 0 - 1
\* an absent cache entry, object or result
NoEntry == [absent |-> TRUE]
\* a promise not settled yet
Pending == 0 - 3

\* the largest part number a chunk of the model can get
MaxPartNumber == 12
PartNumbers == 1..MaxPartNumber

(* --------------------------- pure functions --------------------------- *)

Min(a, b) == IF a < b THEN a ELSE b

\* Number.parseInt(x, 10) of an upload_length: NaN for undefined
NaN == 0 - 2
\* a conversion that takes undefined for 0
ParseIntOrZero(x) == IF x = Undefined THEN 0 ELSE x
ParseInt(x) == IF x = Undefined THEN NaN ELSE x

\* the part numbers S3 holds of an upload: stored[pn].Size > 0
StoredNumbers(stored) == {pn \in PartNumbers : stored[pn].Size > 0}

\* S3's listParts: the parts after the marker in ascending order, one page
RECURSIVE AscendingFrom(_, _)
AscendingFrom(stored, marker) ==
    LET rest == {pn \in StoredNumbers(stored) : pn > marker}
    IN IF rest = {} THEN <<>>
       ELSE LET lo == CHOOSE pn \in rest : \A q \in rest : pn <= q
            IN <<[PartNumber |-> lo, Size |-> stored[lo].Size,
                  Start |-> stored[lo].Start]>>
               \o AscendingFrom(stored, lo)

listParts(stored, marker) ==
    LET all == AscendingFrom(stored, marker)
        page == SubSeq(all, 1, Min(Len(all), PageSize))
    IN [Parts |-> page,
        NextPartNumberMarker |->
            IF Len(all) > PageSize THEN page[Len(page)].PartNumber ELSE 0]

\* parts.sort((a, b) => a.PartNumber - b.PartNumber)
RECURSIVE Insert(_, _)
Insert(p, s) ==
    IF s = <<>> THEN <<p>>
    ELSE IF p.PartNumber < Head(s).PartNumber THEN <<p>> \o s
         ELSE <<Head(s)>> \o Insert(p, Tail(s))

RECURSIVE SortByPartNumber(_)
SortByPartNumber(s) ==
    IF s = <<>> THEN <<>> ELSE Insert(Head(s), SortByPartNumber(Tail(s)))

\* parts.filter((value, index) => value.PartNumber === index + 1)
RECURSIVE FilterFrom(_, _)
FilterFrom(s, i) ==
    IF i > Len(s) THEN <<>>
    ELSE (IF s[i].PartNumber = i THEN <<s[i]>> ELSE <<>>) \o FilterFrom(s, i + 1)

\* a filter that keeps every part
FilterNothing(s) == s

FilterConsecutive(s) == FilterFrom(s, 1)

\* _retrieveParts(file_id, part_number_marker): the pages from the marker on,
\* concatenated; sorted and filtered only by the call without a marker
RECURSIVE retrievePages(_, _)
retrievePages(stored, marker) ==
    LET data == listParts(stored, marker)
    IN IF data.NextPartNumberMarker # 0
       THEN data.Parts \o retrievePages(stored, data.NextPartNumberMarker)
       ELSE data.Parts

retrieveParts(stored) == FilterConsecutive(SortByPartNumber(retrievePages(stored, 0)))

\* _countParts
countParts(stored) == Len(retrieveParts(stored))

\* parts.reduce((a, b) => a + b.Size, 0)
RECURSIVE SumSizes(_)
SumSizes(s) == IF s = <<>> THEN 0 ELSE Head(s).Size + SumSizes(Tail(s))


(* ------------------------------- state -------------------------------- *)

VARIABLES
    part_size,            \* this.part_size
    cache,                \* this.cache[id]: NoEntry or [file, upload_id]
    sidecar,              \* S3 object {id}.info: NoEntry or [file, upload_id]
    uploadIds,            \* multipart uploads S3 has created for the key
    mpu,                  \* the sidecar's multipart upload: none, open, completed
    stored,               \* its parts at S3: part number -> [Size, Start]
    completedWith,        \* the Parts completeMultipartUpload was given
    saveInFlight,         \* the putObject declareUploadLength did not await
    writes,               \* write calls made so far
    w_pc,                 \* where the running write is suspended
    w_stream,             \* the readable: bytes left to deliver, how it ends
    w_pos,                \* position in the client's file of the next byte
    w_metadata,           \* metadata, as resolved by _getMetadata
    w_part_number,        \* what _countParts resolved with
    w_initial_offset,     \* what the first getOffset resolved with
    currentPartNumber,    \* _processUpload's currentPartNumber
    current_size,         \* _processUpload's current_size
    pendingChunkFilepath, \* TRUE while a chunk file is being written
    promises,             \* _processUpload's promises, one per chunkFinished
    w_offset,             \* current_offset of the completion test
    w_result,             \* how write settled
    uploads,              \* uploadPart calls S3 has not answered yet
    tmpfiles,             \* chunk files on disk
    g_pc,                 \* where a getOffset call made apart from write is
    g_metadata,           \* its metadata
    g_result,             \* how it settled
    c_result,             \* how create settled
    d_result,             \* how declareUploadLength settled
    h_mpu                 \* history: mpu when the getOffset call began

vars == <<part_size, cache, sidecar, uploadIds, mpu, stored, completedWith,
          saveInFlight, writes, w_pc, w_stream, w_pos, w_metadata,
          w_part_number, w_initial_offset, currentPartNumber, current_size,
          pendingChunkFilepath, promises, w_offset, w_result, uploads,
          tmpfiles, g_pc, g_metadata, g_result, c_result, d_result,
          h_mpu>>

s3vars == <<sidecar, uploadIds, mpu, stored, completedWith>>
streamvars == <<w_stream, w_pos, currentPartNumber, current_size,
                pendingChunkFilepath, promises>>
gvars == <<g_pc, g_metadata, g_result, h_mpu>>

NoPart == [Size |-> 0, Start |-> 0]
NoResult == [kind |-> "none"]
Resolved(size) == [kind |-> "resolved", size |-> size]
Rejected(code) == [kind |-> "rejected", code |-> code]

Init ==
    /\ part_size \in PartSizes
    /\ cache = NoEntry
    /\ sidecar = NoEntry
    /\ uploadIds = 0
    /\ mpu = "none"
    /\ stored = [pn \in PartNumbers |-> NoPart]
    /\ completedWith = <<>>
    /\ saveInFlight = NoEntry
    /\ writes = 0
    /\ w_pc = "idle"
    /\ w_stream = [left |-> 0, end |-> "end"]
    /\ w_pos = 0
    /\ w_metadata = NoEntry
    /\ w_part_number = Pending
    /\ w_initial_offset = NoEntry
    /\ currentPartNumber = 1
    /\ current_size = 0
    /\ pendingChunkFilepath = FALSE
    /\ promises = <<>>
    /\ w_offset = NoEntry
    /\ w_result = NoResult
    /\ uploads = {}
    /\ tmpfiles = {}
    /\ g_pc = "idle"
    /\ g_metadata = NoEntry
    /\ g_result = NoResult
    /\ c_result = NoResult
    /\ d_result = NoResult
    /\ h_mpu = "none"

\* the front end takes the settlement of a create, getOffset or
\* declareUploadLength call before it makes another call
Taken == g_result = NoResult /\ c_result = NoResult /\ d_result = NoResult

(* ------------------------------ S3's answers -------------------------- *)

\* listParts, uploadPart and completeMultipartUpload answer NoSuchUpload once
\* the multipart upload is completed; otherwise what the network lets through
S3Answer(o) == IF mpu # "open" THEN "NoSuchUpload" ELSE o

\* headObject of {id}.info
HeadAnswer(o) == IF sidecar = NoEntry THEN "NotFound" ELSE o

(* ------------------------------- create ------------------------------- *)

NewFile(len) ==
    [upload_length |-> len,
     upload_defer_length |-> IF len = Undefined THEN 1 ELSE Undefined]

\* _clearCache
clearCache == NoEntry

\* a save that leaves the upload id out of the sidecar
saveWithoutUploadId(file, upload_id) == [file |-> file, upload_id |-> 0]

\* _saveMetadata: the sidecar putObject writes
saveMetadata(file, upload_id) == [file |-> file, upload_id |-> upload_id]

\* create(file): headBucket, createMultipartUpload, putObject of the sidecar;
\* failAt names the call that fails, if any.  The front end makes the id, so
\* create runs before any other operation knows the id.
create(len, failAt) ==
    /\ Taken
    /\ sidecar = NoEntry
    /\ uploadIds < MaxUploadIds
    /\ w_pc = "idle"
    /\ g_pc = "idle"
    /\ IF failAt = "headBucket"
       THEN /\ cache' = clearCache
            /\ c_result' = Rejected("InternalError")
            /\ UNCHANGED <<sidecar, uploadIds, mpu>>
       ELSE IF failAt = "createMultipartUpload"
       THEN /\ cache' = clearCache
            /\ c_result' = Rejected("InternalError")
            /\ UNCHANGED <<sidecar, uploadIds, mpu>>
       ELSE IF failAt = "putObject"
       THEN /\ uploadIds' = uploadIds + 1
            /\ cache' = clearCache
            /\ c_result' = Rejected("InternalError")
            /\ UNCHANGED <<sidecar, mpu>>
       ELSE /\ uploadIds' = uploadIds + 1
            /\ sidecar' = saveMetadata(NewFile(len), uploadIds + 1)
            /\ mpu' = "open"
            /\ c_result' = Resolved(len)
            /\ UNCHANGED cache
    /\ UNCHANGED <<part_size, stored, completedWith, saveInFlight, writes, w_pc,
                   w_metadata, w_part_number, w_initial_offset, w_offset,
                   w_result, uploads, tmpfiles, d_result>>
    /\ UNCHANGED streamvars
    /\ UNCHANGED gvars

(* ----------------------------- getMetadata ---------------------------- *)

\* _getMetadata: the cache entry when it has a file, else headObject, whose
\* answer o fills the cache.  [cache, error] after the call.
getMetadata(o) ==
    IF cache # NoEntry
    THEN [cache |-> cache, error |-> "none"]
    ELSE IF HeadAnswer(o) = "ok"
         THEN [cache |-> sidecar, error |-> "none"]
         ELSE [cache |-> cache, error |-> HeadAnswer(o)]

(* ------------------------------ getOffset ----------------------------- *)

\* getOffset after its _getMetadata: what it settles with when listParts
\* answers a; c is this.cache[id] at that moment and metadata what
\* _getMetadata had resolved with
getOffsetSettle(metadata, c, a) ==
    IF a = "ok"
    THEN IF c = NoEntry
         THEN Rejected("TypeError")
         ELSE [kind |-> "resolved",
               size |-> SumSizes(retrieveParts(stored)),
               upload_length |-> metadata.file.upload_length,
               upload_defer_length |-> metadata.file.upload_defer_length,
               has_parts |-> TRUE,
               parts |-> retrieveParts(stored)]
    ELSE IF a # "NoSuchUpload"
    THEN Rejected(a)
    ELSE IF c = NoEntry
         THEN Rejected("TypeError")
         ELSE [kind |-> "resolved",
               size |-> metadata.file.upload_length,
               upload_length |-> metadata.file.upload_length,
               upload_defer_length |-> metadata.file.upload_defer_length,
               has_parts |-> FALSE,
               parts |-> <<>>]

\* getOffset(id), called by the front end: _getMetadata, then listParts is sent
getOffsetBegin(o) ==
    /\ Taken
    /\ g_pc = "idle"
    /\ LET m == getMetadata(o)
       IN IF m.error = "none"
          THEN /\ cache' = m.cache
               /\ g_metadata' = m.cache
               /\ g_pc' = "listParts"
               /\ g_result' = NoResult
          ELSE /\ g_result' = Rejected("FILE_NOT_FOUND")
               /\ UNCHANGED <<cache, g_metadata, g_pc>>
    /\ h_mpu' = mpu
    /\ UNCHANGED <<part_size, saveInFlight, writes, w_pc, w_metadata,
                   w_part_number, w_initial_offset, w_offset, w_result, uploads,
                   tmpfiles, c_result, d_result>>
    /\ UNCHANGED s3vars
    /\ UNCHANGED streamvars

\* listParts answers and getOffset settles
getOffsetListed(o) ==
    /\ Taken
    /\ g_pc = "listParts"
    /\ g_result' = getOffsetSettle(g_metadata, cache, S3Answer(o))
    /\ g_pc' = "idle"
    /\ g_metadata' = NoEntry
    /\ UNCHANGED h_mpu
    /\ UNCHANGED <<part_size, cache, saveInFlight, writes, w_pc, w_metadata,
                   w_part_number, w_initial_offset, w_offset, w_result, uploads,
                   tmpfiles, c_result, d_result>>
    /\ UNCHANGED s3vars
    /\ UNCHANGED streamvars


(* ------------------------- declareUploadLength ------------------------ *)

\* declareUploadLength(file_id, upload_length): _getMetadata, the length set
\* on the cached file, and _saveMetadata called without await: the call
\* resolves while the putObject is in flight.  The front end calls it from the
\* PATCH it serializes with write, for an upload whose length is undeclared.
declareUploadLength(len, o) ==
    /\ Taken
    /\ w_pc \in {"idle", "done"}
    /\ g_pc = "idle"
    /\ saveInFlight = NoEntry
    /\ LET m == getMetadata(o)
       IN IF m.error # "none"
          THEN /\ d_result' = Rejected(m.error)
               /\ UNCHANGED <<cache, saveInFlight>>
          ELSE /\ m.cache.file.upload_length = Undefined
               /\ LET file == [upload_length |-> len,
                               upload_defer_length |-> Undefined]
                  IN /\ cache' = [m.cache EXCEPT !.file = file]
                     /\ saveInFlight' = saveMetadata(file, m.cache.upload_id)
               /\ d_result' = Resolved(len)
    /\ UNCHANGED <<part_size, writes, w_pc, w_metadata, w_part_number,
                   w_initial_offset, w_offset, w_result, uploads, tmpfiles,
                   c_result>>
    /\ UNCHANGED s3vars
    /\ UNCHANGED streamvars
    /\ UNCHANGED gvars

\* S3 answers the putObject of declareUploadLength; nobody awaits the answer
saveLanded(o) ==
    /\ Taken
    /\ saveInFlight # NoEntry
    /\ sidecar' = IF o = "ok" THEN saveInFlight ELSE sidecar
    /\ saveInFlight' = NoEntry
    /\ UNCHANGED <<part_size, cache, uploadIds, mpu, stored, completedWith,
                   writes, w_pc, w_metadata, w_part_number, w_initial_offset,
                   w_offset, w_result, uploads, tmpfiles, c_result, d_result>>
    /\ UNCHANGED streamvars
    /\ UNCHANGED gvars

(* -------------------------------- write ------------------------------- *)

\* a .catch that treats every error as fatal
catchFatal(code) ==
    /\ cache' = clearCache
    /\ w_result' = Rejected(code)
    /\ w_pc' = "done"

\* the .catch of write: RequestTimeout and NoSuchUpload lead to another
\* getOffset, anything else clears the cache and rejects
catchHandler(code) ==
    IF code \in {"RequestTimeout", "NoSuchUpload"}
    THEN /\ w_pc' = "catchOffset"
         /\ UNCHANGED <<cache, w_result>>
    ELSE /\ cache' = clearCache
         /\ w_result' = Rejected(code)
         /\ w_pc' = "done"

\* the first promise of the list found rejected, 0 if none
FirstRejected(ps) ==
    LET R == {i \in 1..Len(ps) : ps[i].st = "rejected"}
    IN IF R = {} THEN 0 ELSE CHOOSE i \in R : \A j \in R : i <= j

AllFulfilled(ps) == \A i \in 1..Len(ps) : ps[i].st = "fulfilled"

\* Promise.all(promises), promises being the chunks' promises ps followed by
\* the pipeline's (rejected with pipelineErr unless the stream ended): it
\* rejects with the first rejection, and resolves when every promise has
\* fulfilled
promiseAll(ps, pipelineErr) ==
    IF FirstRejected(ps) # 0
    THEN catchHandler(ps[FirstRejected(ps)].code)
    ELSE IF pipelineErr # "end"
    THEN catchHandler(pipelineErr)
    ELSE IF AllFulfilled(ps)
    THEN /\ w_pc' = "offsetNow"
         /\ UNCHANGED <<cache, w_result>>
    ELSE /\ w_pc' = "all"
         /\ UNCHANGED <<cache, w_result>>

\* write(readable, file_id) up to its first await: _getMetadata.  The readable
\* delivers k bytes and then ends as e says.  The front end serializes the
\* writes of an id and has read the offset the client resumes from.
writeBegin(k, e, o) ==
    /\ Taken
    /\ w_pc \in {"idle", "done"}
    /\ writes < MaxWrites
    /\ sidecar # NoEntry
    /\ writes' = writes + 1
    /\ w_stream' = [left |-> k, end |-> e]
    /\ w_pos' = SumSizes(retrieveParts(stored))
    /\ w_part_number' = Pending
    /\ w_initial_offset' = NoEntry
    /\ w_offset' = NoEntry
    /\ currentPartNumber' = 1
    /\ current_size' = 0
    /\ pendingChunkFilepath' = FALSE
    /\ promises' = <<>>
    /\ LET m == getMetadata(o)
       IN IF m.error = "none"
          THEN /\ cache' = m.cache
               /\ w_metadata' = m.cache
               /\ w_pc' = "initial"
               /\ w_result' = NoResult
          ELSE /\ w_result' = Rejected(m.error)
               /\ w_pc' = "done"
               /\ w_metadata' = NoEntry
               /\ UNCHANGED cache
    /\ UNCHANGED <<part_size, saveInFlight, uploads, tmpfiles, c_result,
                   d_result>>
    /\ UNCHANGED s3vars
    /\ UNCHANGED gvars

\* a _processUpload that numbers the first chunk part_number
processUploadFrom(part_number, initial_offset) ==
    /\ currentPartNumber' = part_number
    /\ current_size' = initial_offset.size
    /\ w_pc' = "stream"

\* both promises of Promise.all([metadata, _countParts, getOffset]) resolved:
\* _processUpload(metadata, readable, part_number + 1, initial_offset.size)
processUploadBegin(part_number, initial_offset) ==
    /\ currentPartNumber' = part_number + 1
    /\ current_size' = initial_offset.size
    /\ w_pc' = "stream"

\* listParts answers _countParts
writeCountParts(o) ==
    /\ Taken
    /\ w_pc = "initial"
    /\ w_part_number = Pending
    /\ IF S3Answer(o) = "ok"
       THEN /\ w_part_number' = countParts(stored)
            /\ IF w_initial_offset # NoEntry
               THEN processUploadBegin(countParts(stored), w_initial_offset)
               ELSE UNCHANGED <<currentPartNumber, current_size, w_pc>>
            /\ UNCHANGED w_result
       ELSE /\ w_result' = Rejected(S3Answer(o))
            /\ w_pc' = "done"
            /\ UNCHANGED <<w_part_number, currentPartNumber, current_size>>
    /\ UNCHANGED <<part_size, cache, saveInFlight, writes, w_metadata,
                   w_initial_offset, w_offset, uploads, tmpfiles, c_result,
                   d_result, w_stream, w_pos, pendingChunkFilepath, promises>>
    /\ UNCHANGED s3vars
    /\ UNCHANGED gvars

\* listParts answers the getOffset of Promise.all([...])
writeInitialOffset(o) ==
    /\ Taken
    /\ w_pc = "initial"
    /\ w_initial_offset = NoEntry
    /\ LET r == getOffsetSettle(w_metadata, cache, S3Answer(o))
       IN IF r.kind = "resolved"
          THEN /\ w_initial_offset' = r
               /\ IF w_part_number # Pending
                  THEN processUploadBegin(w_part_number, r)
                  ELSE UNCHANGED <<currentPartNumber, current_size, w_pc>>
               /\ UNCHANGED w_result
          ELSE /\ w_result' = r
               /\ w_pc' = "done"
               /\ UNCHANGED <<w_initial_offset, currentPartNumber, current_size>>
    /\ UNCHANGED <<part_size, cache, saveInFlight, writes, w_metadata,
                   w_part_number, w_offset, uploads, tmpfiles, c_result,
                   d_result, w_stream, w_pos, pendingChunkFilepath, promises>>
    /\ UNCHANGED s3vars
    /\ UNCHANGED gvars


(* --------------------- _processUpload: the splitter ------------------- *)

\* the callbacks queued by Promise.resolve().then(...) run before the next
\* event of the stream is delivered
MicrotasksDrained == \A i \in 1..Len(promises) : promises[i].st # "then"

\* FileStreamSplitter opens a chunk file when the first byte of a chunk arrives
splitterStarts == w_stream.left > 0 /\ ~pendingChunkFilepath

\* FileStreamSplitter closes the chunk file at maxChunkSize bytes, or at the
\* end of the stream; a stream that errors leaves its last file unfinished
splitterFinishes ==
    /\ pendingChunkFilepath
    /\ w_stream.left >= part_size \/ w_stream.end = "end"

ChunkSize == Min(w_stream.left, part_size)

\* the pipeline is done when the stream has ended and every chunk is finished,
\* or when it has errored after the bytes it delivered were written
splitterDone ==
    IF w_stream.end = "end"
    THEN w_stream.left = 0 /\ ~pendingChunkFilepath
    ELSE w_stream.left < part_size /\ (w_stream.left = 0 \/ pendingChunkFilepath)

\* the file of the chunk that gets part number pn in write w
ChunkFile(w, pn) == <<w, pn>>

\* splitterStream.on('chunkStarted')
chunkStarted ==
    /\ Taken
    /\ w_pc = "stream"
    /\ MicrotasksDrained
    /\ splitterStarts
    /\ pendingChunkFilepath' = TRUE
    /\ tmpfiles' = tmpfiles \cup {ChunkFile(writes, currentPartNumber)}
    /\ UNCHANGED <<part_size, cache, saveInFlight, writes, w_pc, w_metadata,
                   w_part_number, w_initial_offset, w_offset, w_result, uploads,
                   c_result, d_result, w_stream, w_pos, currentPartNumber,
                   current_size, promises>>
    /\ UNCHANGED s3vars
    /\ UNCHANGED gvars

\* splitterStream.on('chunkFinished'), up to the promise it pushes: the
\* callback of Promise.resolve().then is queued, not run
chunkFinished ==
    /\ Taken
    /\ w_pc = "stream"
    /\ MicrotasksDrained
    /\ splitterFinishes
    /\ pendingChunkFilepath' = FALSE
    /\ current_size' = current_size + ChunkSize
    /\ currentPartNumber' = currentPartNumber + 1
    /\ promises' = Append(promises,
                          [PartNumber |-> currentPartNumber, Size |-> ChunkSize,
                           Start |-> w_pos, st |-> "then", uploaded |-> FALSE,
                           code |-> "none"])
    /\ w_stream' = [w_stream EXCEPT !.left = @ - ChunkSize]
    /\ w_pos' = w_pos + ChunkSize
    /\ UNCHANGED <<part_size, cache, saveInFlight, writes, w_pc, w_metadata,
                   w_part_number, w_initial_offset, w_offset, w_result, uploads,
                   tmpfiles, c_result, d_result>>
    /\ UNCHANGED s3vars
    /\ UNCHANGED gvars

\* is_last_chunk, read in the callback: current_size is the variable the
\* chunkFinished handlers share
is_last_chunk == ParseInt(w_metadata.file.upload_length) = current_size

\* a small-tail test that skips nothing
skipNever(size) == FALSE

\* a small-tail test that does not look at is_last_chunk
skipSmall(size) == size < MinPartSize

\* the small-tail test: skip the chunk if it is not last and below 5 MiB
skipChunk(size) == ~is_last_chunk /\ size < MinPartSize

\* the callback of Promise.resolve().then of chunk i: the chunk is skipped
\* (and .finally removes its file), or uploadPart is sent
chunkThen(i) ==
    /\ Taken
    /\ i \in 1..Len(promises)
    /\ promises[i].st = "then"
    /\ IF skipChunk(promises[i].Size)
       THEN /\ promises' = [promises EXCEPT ![i].st = "fulfilled"]
            /\ tmpfiles' = tmpfiles \ {ChunkFile(writes, promises[i].PartNumber)}
            /\ UNCHANGED uploads
       ELSE /\ promises' = [promises EXCEPT ![i].st = "uploading",
                                            ![i].uploaded = TRUE]
            /\ uploads' = uploads \cup
                   {[w |-> writes, PartNumber |-> promises[i].PartNumber,
                     Size |-> promises[i].Size, Start |-> promises[i].Start]}
            /\ UNCHANGED tmpfiles
    /\ UNCHANGED <<part_size, cache, saveInFlight, writes, w_pc, w_metadata,
                   w_part_number, w_initial_offset, w_offset, w_result,
                   c_result, d_result, w_stream, w_pos, currentPartNumber,
                   current_size, pendingChunkFilepath>>
    /\ UNCHANGED s3vars
    /\ UNCHANGED gvars

\* a callback of stream.pipeline that leaves the unfinished file on disk
pipelineKeepsFile ==
    /\ Taken
    /\ w_pc = "stream"
    /\ MicrotasksDrained
    /\ splitterDone
    /\ promiseAll(promises, w_stream.end)
    /\ UNCHANGED <<part_size, saveInFlight, writes, w_metadata, w_part_number,
                   w_initial_offset, w_offset, uploads, tmpfiles, c_result,
                   d_result>>
    /\ UNCHANGED streamvars
    /\ UNCHANGED s3vars
    /\ UNCHANGED gvars

\* the callback of stream.pipeline: a file left unfinished by an error is
\* removed, the pipeline's promise is pushed and _processUpload resolves with
\* the list, on which write calls Promise.all
pipelineDone ==
    /\ Taken
    /\ w_pc = "stream"
    /\ MicrotasksDrained
    /\ splitterDone
    /\ tmpfiles' = IF w_stream.end # "end" /\ pendingChunkFilepath
                   THEN tmpfiles \ {ChunkFile(writes, currentPartNumber)}
                   ELSE tmpfiles
    /\ promiseAll(promises, w_stream.end)
    /\ UNCHANGED <<part_size, saveInFlight, writes, w_metadata, w_part_number,
                   w_initial_offset, w_offset, uploads, c_result, d_result>>
    /\ UNCHANGED streamvars
    /\ UNCHANGED s3vars
    /\ UNCHANGED gvars

\* the promise list after uploadPart of part pn settled with answer a
settle(ps, pn, a) ==
    [i \in 1..Len(ps) |->
        IF ps[i].PartNumber = pn /\ ps[i].st = "uploading"
        THEN [ps[i] EXCEPT !.st = IF a = "ok" THEN "fulfilled" ELSE "rejected",
                           !.code = IF a = "ok" THEN "none" ELSE a]
        ELSE ps[i]]

\* S3 answers an uploadPart: the part is stored (replacing one of the same
\* number) or the call fails; .finally removes the chunk's file.  The upload
\* may be one of a write that has settled already.
uploadPartDone(u, o) ==
    /\ Taken
    /\ u \in uploads
    /\ uploads' = uploads \ {u}
    /\ tmpfiles' = tmpfiles \ {ChunkFile(u.w, u.PartNumber)}
    /\ stored' = IF S3Answer(o) = "ok"
                 THEN [stored EXCEPT ![u.PartNumber] =
                          [Size |-> u.Size, Start |-> u.Start]]
                 ELSE stored
    /\ IF u.w = writes
       THEN /\ promises' = settle(promises, u.PartNumber, S3Answer(o))
            /\ IF w_pc = "all"
               THEN promiseAll(settle(promises, u.PartNumber, S3Answer(o)), "end")
               ELSE UNCHANGED <<w_pc, cache, w_result>>
       ELSE UNCHANGED <<promises, w_pc, cache, w_result>>
    /\ UNCHANGED <<part_size, sidecar, uploadIds, mpu, completedWith,
                   saveInFlight, writes, w_metadata, w_part_number,
                   w_initial_offset, w_offset, c_result, d_result, w_stream,
                   w_pos, currentPartNumber, current_size, pendingChunkFilepath>>
    /\ UNCHANGED gvars

(* ------------------------ write: after Promise.all -------------------- *)

\* _finishMultipartUpload(metadata, parts): parts.map throws on the missing
\* parts of an offset read from a completed upload
finishable(offset) == offset.has_parts

\* listParts answers the getOffset that follows Promise.all: the completion
\* test, then completeMultipartUpload is sent or write resolves
writeOffsetNow(o) ==
    /\ Taken
    /\ w_pc = "offsetNow"
    /\ LET r == getOffsetSettle(w_metadata, cache, S3Answer(o))
       IN IF r.kind = "rejected"
          THEN /\ catchHandler(r.code)
               /\ UNCHANGED w_offset
          ELSE IF ParseInt(w_metadata.file.upload_length) = r.size
          THEN IF finishable(r)
               THEN /\ w_offset' = r
                    /\ w_pc' = "complete"
                    /\ UNCHANGED <<cache, w_result>>
               ELSE /\ catchHandler("TypeError")
                    /\ UNCHANGED w_offset
          ELSE /\ w_result' = Resolved(r.size)
               /\ w_pc' = "done"
               /\ UNCHANGED <<cache, w_offset>>
    /\ UNCHANGED <<part_size, saveInFlight, writes, w_metadata, w_part_number,
                   w_initial_offset, uploads, tmpfiles, c_result, d_result>>
    /\ UNCHANGED streamvars
    /\ UNCHANGED s3vars
    /\ UNCHANGED gvars

\* S3 answers completeMultipartUpload
writeComplete(o) ==
    /\ Taken
    /\ w_pc = "complete"
    /\ IF S3Answer(o) = "ok"
       THEN /\ mpu' = "completed"
            /\ completedWith' = w_offset.parts
            /\ cache' = clearCache
            /\ w_result' = Resolved(w_offset.size)
            /\ w_pc' = "done"
       ELSE /\ catchHandler(S3Answer(o))
            /\ UNCHANGED <<mpu, completedWith>>
    /\ UNCHANGED <<part_size, sidecar, uploadIds, stored, saveInFlight, writes,
                   w_metadata, w_part_number, w_initial_offset, w_offset,
                   uploads, tmpfiles, c_result, d_result>>
    /\ UNCHANGED streamvars
    /\ UNCHANGED gvars

\* listParts answers the getOffset of the .catch: write settles as it does
writeCatchOffset(o) ==
    /\ Taken
    /\ w_pc = "catchOffset"
    /\ LET r == getOffsetSettle(w_metadata, cache, S3Answer(o))
       IN w_result' = IF r.kind = "resolved" THEN Resolved(r.size) ELSE r
    /\ w_pc' = "done"
    /\ UNCHANGED <<part_size, cache, saveInFlight, writes, w_metadata,
                   w_part_number, w_initial_offset, w_offset, uploads, tmpfiles,
                   c_result, d_result>>
    /\ UNCHANGED streamvars
    /\ UNCHANGED s3vars
    /\ UNCHANGED gvars

(* ---------------------------- specification --------------------------- *)

resultsTaken ==
    /\ ~Taken
    /\ g_result' = NoResult
    /\ c_result' = NoResult
    /\ d_result' = NoResult
    /\ UNCHANGED <<part_size, cache, saveInFlight, writes, w_pc, w_metadata,
                   w_part_number, w_initial_offset, w_offset, w_result, uploads,
                   tmpfiles, g_pc, g_metadata>>
    /\ h_mpu' = IF g_pc = "idle" THEN "none" ELSE h_mpu
    /\ UNCHANGED s3vars
    /\ UNCHANGED streamvars

Step ==
    \/ \E len \in Lengths \cup {Undefined},
          failAt \in {"none", "headBucket", "createMultipartUpload", "putObject"} :
          create(len, failAt)
    \/ \E o \in {"ok", "InternalError"} : getOffsetBegin(o)
    \/ \E o \in {"ok", "InternalError"} : getOffsetListed(o)
    \/ \E len \in DeclaredLengths, o \in Outcomes : declareUploadLength(len, o)
    \/ \E o \in Outcomes : saveLanded(o)
    \/ \E k \in StreamSizes, e \in StreamEnds, o \in Outcomes : writeBegin(k, e, o)
    \/ \E o \in Outcomes : writeCountParts(o)
    \/ \E o \in Outcomes : writeInitialOffset(o)
    \/ chunkStarted
    \/ chunkFinished
    \/ \E i \in 1..Len(promises) : chunkThen(i)
    \/ pipelineDone
    \/ \E u \in uploads, o \in Outcomes : uploadPartDone(u, o)
    \/ \E o \in Outcomes : writeOffsetNow(o)
    \/ \E o \in Outcomes : writeComplete(o)
    \/ \E o \in Outcomes : writeCatchOffset(o)

Next == Step \/ resultsTaken

Spec == Init /\ [][Next]_vars


(* --------------- the scenario of a 10 MiB write that times out -------- *)

\* upload_length = 100 MiB, part size 8 MiB
InitC5 == Init /\ part_size = DefaultPartSize

createC5 == create(100, "none")

\* the first write: its stream delivers 10 MiB and errors with RequestTimeout
firstWrite(o) == writes = 0 /\ writeBegin(10, "RequestTimeout", o)

\* the writes that follow
followingWrite(k, e, o) == writes > 0 /\ writeBegin(k, e, o)

NextC5 ==
    \/ createC5
    \/ \E o \in Outcomes : firstWrite(o)
    \/ \E k \in StreamSizes, e \in StreamEnds, o \in Outcomes :
          followingWrite(k, e, o)
    \/ \E o \in {"ok", "InternalError"} : getOffsetBegin(o)
    \/ \E o \in {"ok", "InternalError"} : getOffsetListed(o)
    \/ \E o \in Outcomes : writeCountParts(o)
    \/ \E o \in Outcomes : writeInitialOffset(o)
    \/ chunkStarted
    \/ chunkFinished
    \/ \E i \in 1..Len(promises) : chunkThen(i)
    \/ pipelineDone
    \/ \E u \in uploads, o \in Outcomes : uploadPartDone(u, o)
    \/ \E o \in Outcomes : writeOffsetNow(o)
    \/ \E o \in Outcomes : writeCatchOffset(o)
    \/ resultsTaken

SpecC5 == InitC5 /\ [][NextC5]_vars


(* ------ serialized writes that start after every upload has settled ---- *)

\* the stream sizes of these writes, in MiB: one below the part size that is
\* uploaded as a part of its own, and one of several parts
SettledStreamSizes == {6, 20}

\* upload_length = 100 MiB, part size 8 MiB
InitC18 == Init /\ part_size = DefaultPartSize

createC18 == create(100, "none")

\* a write called when no uploadPart of an earlier write is in flight; its
\* stream ends normally
settledWrite(k, o) == uploads = {} /\ writeBegin(k, "end", o)

NextC18 ==
    \/ createC18
    \/ \E k \in SettledStreamSizes, o \in Outcomes : settledWrite(k, o)
    \/ \E o \in Outcomes : writeCountParts(o)
    \/ \E o \in Outcomes : writeInitialOffset(o)
    \/ chunkStarted
    \/ chunkFinished
    \/ \E i \in 1..Len(promises) : chunkThen(i)
    \/ pipelineDone
    \/ \E u \in uploads, o \in Outcomes : uploadPartDone(u, o)
    \/ \E o \in Outcomes : writeOffsetNow(o)
    \/ \E o \in Outcomes : writeCatchOffset(o)
    \/ resultsTaken

SpecC18 == InitC18 /\ [][NextC18]_vars


(* ------------------------------- claims ------------------------------- *)

\* the number N such that parts 1..N are stored and part N + 1 is not
ContiguousCount ==
    CHOOSE n \in 0..MaxPartNumber :
        /\ \A pn \in 1..n : stored[pn].Size > 0
        /\ n = MaxPartNumber \/ stored[n + 1].Size = 0

\* the bytes held by parts 1..n
RECURSIVE PrefixSize(_)
PrefixSize(n) == IF n = 0 THEN 0 ELSE stored[n].Size + PrefixSize(n - 1)

\* C1: whatever parts S3 holds, the outermost retrieveParts returns parts
\* numbered exactly 1..N in order, N being the last number before the first
\* missing one; countParts is N, and a getOffset that has just resolved
\* reports these parts and the bytes of parts 1..N only.
C1_ContiguousPrefix ==
    LET R == retrieveParts(stored)
    IN /\ Len(R) = ContiguousCount
       /\ \A i \in 1..Len(R) : R[i].PartNumber = i /\ R[i].Size = stored[i].Size
       /\ countParts(stored) = ContiguousCount
       /\ g_result.kind = "resolved" /\ g_result.has_parts
            => /\ g_result.parts = R
               /\ g_result.size = PrefixSize(ContiguousCount)

\* a getOffset resolved while S3 holds a part beyond the first missing number
C1_Witness ==
    /\ \E pn \in PartNumbers : pn > ContiguousCount + 1 /\ stored[pn].Size > 0
    /\ ContiguousCount > 0
    /\ g_result.kind = "resolved"
    /\ g_result.has_parts

\* the cumulative size once chunk i of the running write has finished: the
\* offset at the start of the write plus the sizes of chunks 1..i
CumulativeSize(i) == w_initial_offset.size + SumSizes(SubSeq(promises, 1, i))

\* the write in progress has called completeMultipartUpload
CompletionCalled == w_offset # NoEntry

\* C2 as stated: a write whose chunks bring the cumulative size to
\* upload_length has uploaded its trailing chunk and, once settled, has left
\* the multipart upload completed.
C2_AsStated ==
    w_pc = "done" /\ Len(promises) > 0
        /\ CumulativeSize(Len(promises)) = w_metadata.file.upload_length
    => /\ promises[Len(promises)].uploaded
       /\ mpu = "completed"

\* C2: a chunk that brings the cumulative size to exactly upload_length is
\* handed to uploadPart whatever its size; the write calls
\* completeMultipartUpload only after every promise of the write has
\* fulfilled, the stream has ended without error and the offset re-read
\* equals upload_length; and the completion test never lets the write
\* resolve with upload_length without that call.
C2_LastChunkUploaded ==
    /\ [](\A i \in 1..Len(promises) :
            promises[i].st # "then"
                /\ CumulativeSize(i) = w_metadata.file.upload_length
            => promises[i].uploaded)
    /\ [](CompletionCalled
            => /\ AllFulfilled(promises)
               /\ w_stream.end = "end"
               /\ w_offset.size = w_metadata.file.upload_length)
    /\ [][w_pc = "offsetNow" /\ w_pc' = "done" /\ w_result'.kind = "resolved"
            => w_result'.size # w_metadata.file.upload_length]_vars

\* a write whose trailing chunk is below 5 MiB reached upload_length,
\* uploaded that chunk and completed the upload
C2_Witness ==
    /\ w_pc = "done"
    /\ Len(promises) > 0
    /\ CumulativeSize(Len(promises)) = w_metadata.file.upload_length
    /\ promises[Len(promises)].Size < MinPartSize
    /\ promises[Len(promises)].uploaded
    /\ CompletionCalled
    /\ mpu = "completed"

\* K: the bytes the readable of the write in progress delivers in all
StreamBytes == SumSizes(promises) + w_stream.left

\* the offset the write in progress started from: what getOffset(id).size was
\* when the write was called
OffsetBefore == w_pos - SumSizes(promises)

\* the write in progress delivers fewer than 5 MiB and does not reach
\* upload_length
SmallNonFinalWrite ==
    /\ w_pc # "idle"
    /\ w_metadata # NoEntry
    /\ StreamBytes > 0
    /\ StreamBytes < MinPartSize
    /\ OffsetBefore + StreamBytes # w_metadata.file.upload_length

\* C3: a write that delivers K < 5 MiB without reaching upload_length hands
\* no chunk to uploadPart; while it runs the parts stored at S3 do not
\* change, and when it has settled getOffset(id).size is what it was before
\* the write, which is also the size the write resolves with.
C3_SmallWriteUploadsNothing ==
    /\ [](SmallNonFinalWrite
            => \A i \in 1..Len(promises) : ~promises[i].uploaded)
    /\ [](SmallNonFinalWrite /\ w_pc = "done"
            => /\ SumSizes(retrieveParts(stored)) = OffsetBefore
               /\ w_result.kind = "resolved" => w_result.size = OffsetBefore)
    /\ [][SmallNonFinalWrite /\ w_pc # "done" => stored' = stored]_vars

\* the stream of the write in progress has errored with RequestTimeout while
\* a chunk file was being written
TimeoutMidChunk ==
    /\ w_stream.end = "RequestTimeout"
    /\ pendingChunkFilepath
    /\ w_stream.left > 0

\* a part upload of the write in progress has failed with an error the .catch
\* does not handle gracefully
FatalRejection ==
    /\ FirstRejected(promises) # 0
    /\ promises[FirstRejected(promises)].code \notin {"RequestTimeout", "NoSuchUpload"}

C5_AsStated ==
    /\ [](writes = 1 /\ w_pc = "done" /\ TimeoutMidChunk /\ uploads = {}
                     /\ stored[1].Size = 8 /\ w_result.kind = "resolved"
            => /\ w_result.size = 10
               /\ cache # NoEntry)
    /\ [](writes = 2 /\ Len(promises) > 0 /\ OffsetBefore = 8
            => promises[1].PartNumber = 3)

\* C5 (under SpecC5): of the 10 MiB at most the first 8 MiB chunk is
\* stored; the 2 MiB that follow are not.  If the first write resolves, it
\* resolves with 8 MiB when part 1 is stored by the time the offset is
\* re-read and with 0 otherwise, never with 10 MiB, and the cache entry is
\* intact.  The following write numbers its first chunk 2 when its listParts
\* finds part 1 and 1 otherwise, never 3.
C5_TimeoutAfterTenMiB ==
    /\ [](writes = 1 /\ w_pc = "done" /\ w_result.kind = "resolved"
            => /\ w_result.size \in {0, 8}
               /\ w_result.size = 8 => stored[1].Size = 8
               /\ cache # NoEntry)
    /\ [](writes = 2 /\ Len(promises) > 0
            => /\ promises[1].PartNumber = w_part_number + 1
               /\ promises[1].PartNumber \in {1, 2})
    /\ [][writes = 2 /\ w_part_number = Pending /\ w_part_number' # Pending
            => w_part_number' = IF stored[1].Size > 0 THEN 1 ELSE 0]_vars

\* the following write, resumed from the 8 MiB the first one stored, has
\* numbered its first chunk 2
C5_Witness ==
    /\ writes = 2
    /\ Len(promises) > 0
    /\ OffsetBefore = 8
    /\ stored[1].Size = 8
    /\ promises[1].PartNumber = 2

\* the parts of the list are numbered 1..N in order
NumberedFromOne(parts) == \A i \in 1..Len(parts) : parts[i].PartNumber = i

\* C6: write sends completeMultipartUpload only from the completion test
\* that follows Promise.all, when every promise has fulfilled, upload_length
\* is declared and the offset just re-read sums to it; the parts it passes
\* are the contiguous parts 1..N of that offset.  The upload becomes
\* completed only by that call, with those parts, and then the cache entry
\* is removed and write resolves with the size of that offset.
C6_CompletionOnlyAtLength ==
    /\ [][w_pc # "complete" /\ w_pc' = "complete"
            => /\ w_pc = "offsetNow"
               /\ AllFulfilled(promises)
               /\ w_metadata.file.upload_length # Undefined
               /\ w_offset'.size = w_metadata.file.upload_length
               /\ w_offset'.size = SumSizes(retrieveParts(stored))
               /\ w_offset'.has_parts
               /\ w_offset'.parts = retrieveParts(stored)
               /\ NumberedFromOne(w_offset'.parts)]_vars
    /\ [][mpu # "completed" /\ mpu' = "completed"
            => /\ w_pc = "complete"
               /\ completedWith' = w_offset.parts
               /\ cache' = NoEntry
               /\ w_result' = Resolved(w_offset.size)
               /\ w_pc' = "done"]_vars
    /\ [](mpu = "completed"
            => /\ NumberedFromOne(completedWith)
               /\ SumSizes(completedWith) \in Lengths \cup DeclaredLengths)

\* a write has completed an upload of several parts: the cache entry is
\* gone and the write resolved with upload_length
C6_Witness ==
    /\ mpu = "completed"
    /\ w_pc = "done"
    /\ Len(completedWith) > 1
    /\ cache = NoEntry
    /\ w_result = Resolved(SumSizes(completedWith))
    /\ w_result.size = w_metadata.file.upload_length

\* C7: when completeMultipartUpload fails, write rejects; a write that
\* called it and has resolved with size equal to upload_length has left the
\* multipart upload completed.
C7_CompletionFailureRejects ==
    /\ [][w_pc = "complete" /\ w_pc' # "complete" /\ mpu' # "completed"
            => w_pc' = "done" /\ w_result'.kind = "rejected"]_vars
    /\ [](w_pc = "done" /\ CompletionCalled /\ w_result.kind = "resolved"
                        /\ w_result.size = w_metadata.file.upload_length
            => mpu = "completed")

\* C8: a getOffset called after a write has completed the multipart upload,
\* when it resolves, resolves with size equal to upload_length (the bytes of
\* the parts the upload was completed with) and without parts, whether it
\* found the cache entry or read the sidecar (no putObject of the sidecar
\* being unanswered).
C8_OffsetAfterCompletion ==
    h_mpu = "completed" /\ g_result.kind = "resolved" /\ saveInFlight = NoEntry
    => /\ g_result.size = SumSizes(completedWith)
       /\ g_result.upload_length = SumSizes(completedWith)
       /\ ~g_result.has_parts

\* C9: when create or write rejects with an error other than RequestTimeout
\* and NoSuchUpload, the cache holds no entry for the id at the moment the
\* rejection is delivered, whichever step failed.
C9_RejectionClearsCache ==
    /\ [](c_result.kind = "rejected" => cache = NoEntry)
    /\ [][w_pc # "done" /\ w_pc' = "done" /\ w_result'.kind = "rejected"
             /\ w_result'.code \notin {"RequestTimeout", "NoSuchUpload"}
            => cache' = NoEntry]_vars

\* C10: a write on an id whose multipart upload no longer exists (it has
\* been completed, so every listParts and uploadPart answers NoSuchUpload)
\* resolves, at whichever step the error is raised.
C10_NoSuchUploadResolves ==
    w_pc = "done" /\ w_metadata # NoEntry /\ mpu = "completed"
    => w_result.kind = "resolved"

\* the upload record of the sidecar is the one create saved, or that record
\* with the deferred length replaced by a declared one
RecordAsCreated(file) ==
    \/ file \in {NewFile(len) : len \in Lengths \cup {Undefined}}
    \/ file \in {[upload_length |-> len, upload_defer_length |-> Undefined] :
                    len \in DeclaredLengths}

C12_FileNotFound ==
    /\ [](sidecar = NoEntry /\ cache = NoEntry
            => /\ g_result # NoResult => g_result = Rejected("FILE_NOT_FOUND")
               /\ d_result # NoResult => d_result = Rejected("FILE_NOT_FOUND"))
    /\ [][sidecar = NoEntry /\ cache = NoEntry
             /\ (g_result' # NoResult \/ d_result' # NoResult)
            => /\ cache' = NoEntry
               /\ saveInFlight' = NoEntry
               /\ UNCHANGED s3vars]_vars

\* C13: when declareUploadLength has resolved, the sidecar records the
\* declared length with upload_defer_length cleared and agrees with the
\* cache entry; once the putObject of the sidecar has been answered, failed
\* or not, the cache keeps no length the sidecar lacks.
C13_DeclaredLengthSaved ==
    /\ [](d_result.kind = "resolved"
            => /\ sidecar.file.upload_length = d_result.size
               /\ sidecar.file.upload_defer_length = Undefined
               /\ cache.file = sidecar.file)
    /\ [](saveInFlight = NoEntry /\ cache # NoEntry /\ sidecar # NoEntry
            => cache.file = sidecar.file)

InFlightOfThisWrite == {u \in uploads : u.w = writes}

\* C15: a write reads the offset it reports, and settles, only after every
\* uploadPart it started has settled; no uploadPart is in flight when a write
\* has returned or when the following write starts.
C15_UploadsSettleFirst ==
    /\ [](w_pc \in {"offsetNow", "complete", "catchOffset", "done"}
            => InFlightOfThisWrite = {})
    /\ [][writes' # writes => uploads = {}]_vars


C17_AcceptedPartsKept ==
    /\ [](\A k \in 1..Len(promises) :
            /\ promises[k].PartNumber = w_part_number + k
            /\ promises[k].PartNumber > w_part_number)
    /\ [](\A u \in InFlightOfThisWrite : u.PartNumber > w_part_number)
    /\ [][\A pn \in 1..ContiguousCount :
            stored'[pn].Start = stored[pn].Start]_vars


\* C18: each of the contiguous parts 1..N that S3 holds starts, in the
\* client's file, where the parts before it end, so that parts 1..N hold the
\* first getOffset(id).size bytes of the file in order.
C18_PartsHoldClientBytes ==
    \A pn \in 1..ContiguousCount : stored[pn].Start = PrefixSize(pn - 1)


\* the size a getOffset that lists the parts now would report
OffsetNow == PrefixSize(ContiguousCount)

\* C19: the size getOffset reports never decreases from one step to the
\* next; a write that resolves returns a size >= the size reported before it
\* started; and no reported size exceeds the declared upload_length.
C19_OffsetMonotone ==
    /\ [][OffsetNow' >= OffsetNow]_vars
    /\ [](w_result.kind = "resolved" => w_result.size >= OffsetBefore)
    /\ [](w_result.kind = "resolved"
            /\ w_metadata.file.upload_length # Undefined
            => w_result.size <= w_metadata.file.upload_length)
    /\ [](g_result.kind = "resolved" /\ g_result.upload_length # Undefined
            => g_result.size <= g_result.upload_length)

\* C20: no operation settles with the TypeError of reading upload_id or file
\* of a missing cache entry: a getOffset suspended on listParts while a write
\* clears the cache settles with a normal result or a store error.
C20_NoMissingCacheRead ==
    /\ g_result.kind = "rejected" => g_result.code # "TypeError"
    /\ w_result.kind = "rejected" => w_result.code # "TypeError"

=============================================================================
